---- MODULE Spec2Model ----
(***************************************************************************)
(* Model of the two interactive printers of pterm's generic select         *)
(* widgets:                                                                *)
(*   InteractiveGenericSelectPrinter      (engine = "select")              *)
(*   GenericInteractiveMultiselectPrinter (engine = "multiselect")         *)
(* One behaviour is one printer value, configured by its constructor and   *)
(* With... methods (Init), then one call of Show: the start-up code        *)
(* (action Show), the keyboard.Listen callback run once per key event (one *)
(* action per case of its switch) and the return of Show with its deferred *)
(* calls.                                                                  *)
(*                                                                         *)
(* Strings are sequences of one-character strings; Go indices are kept     *)
(* 0-based, so element i of a Go slice s is s[i + 1] here.                 *)
(***************************************************************************)
EXTENDS Integers, Sequences, FiniteSets, TLC

\* ------------------------------------------------------------------ bounds

\* Longest query typed: RuneKey and Space stop appending at this length.
MaxQueryLen == 2

\* Largest MaxHeight a caller configures (WithMaxHeight).
MaxConfigHeight == 2

\* DefaultInteractiveSelect.MaxHeight / DefaultInteractiveMultiselect.MaxHeight
DefaultMaxHeight == 5

\* ------------------------------------------------------ strings and slices

EmptyStr == <<>>

Min(a, b) == IF a < b THEN a ELSE b

ToSet(s) == {s[i] : i \in 1..Len(s)}

\* unicode.ToLower on the characters used here (RankFindFold folds case).
Fold(c) == IF c = "A" THEN "a" ELSE IF c = "B" THEN "b" ELSE c

FoldStr(s) == [i \in 1..Len(s) |-> Fold(s[i])]

\* Capacity of a slice built from []string{} by appending n strings one at a
\* time (the loop of renderSelectMenu): the Go runtime doubles, 0 1 2 4 8.
RECURSIVE GrowCap(_, _)
GrowCap(cap, n) == IF n <= cap THEN cap
                   ELSE GrowCap(IF cap = 0 THEN 1 ELSE 2 * cap, n)

\* A Go slice expression s[lo:hi] is legal iff 0 <= lo <= hi <= cap(s).
SliceOK(lo, hi, cap) == 0 <= lo /\ lo <= hi /\ hi <= cap

\* s[lo:hi] of a legal slice expression; elements between len and cap are the
\* zero value "" of the freshly grown backing array.
GoSlice(s, lo, hi) == [i \in 1..(hi - lo) |->
                         IF lo + i <= Len(s) THEN s[lo + i] ELSE EmptyStr]

\* ------------------------------------------------- fuzzy.RankFindFold, sort

\* Position of the first occurrence of c in t, 0 when there is none.
RECURSIVE IndexOf(_, _, _)
IndexOf(c, t, i) == IF i > Len(t) THEN 0
                    ELSE IF t[i] = c THEN i ELSE IndexOf(c, t, i + 1)

\* The loop of fuzzysearch's rank: every rune of source is looked for in what
\* is left of target; skipped and remaining runes are counted.
RECURSIVE RankLoop(_, _, _)
RankLoop(source, target, runeDiff) ==
  IF source = <<>> THEN runeDiff + Len(target)
  ELSE LET i == IndexOf(Head(source), target, 1)
       IN IF i = 0 THEN -1
          ELSE RankLoop(Tail(source), SubSeq(target, i + 1, Len(target)),
                        runeDiff + (i - 1))

\* fuzzy.RankMatchFold: -1 when source is no subsequence of target.
Rank(source, target) ==
  IF Len(target) - Len(source) < 0 THEN -1
  ELSE IF Len(target) = Len(source) /\ FoldStr(source) = FoldStr(target) THEN 0
  ELSE RankLoop(FoldStr(source), FoldStr(target), 0)

\* fuzzy.RankFindFold: the matching targets in target order.
RECURSIVE RankFindFold(_, _, _)
RankFindFold(source, targets, i) ==
  IF i > Len(targets) THEN <<>>
  ELSE LET d == Rank(source, targets[i])
           rest == RankFindFold(source, targets, i + 1)
       IN IF d = -1 THEN rest
          ELSE <<[Target |-> targets[i], Distance |-> d, OriginalIndex |-> i - 1]>>
               \o rest

\* sort.Sort(Ranks) orders by Distance; below 12 elements it is an insertion
\* sort, which moves an element left only past strictly greater ones.
RECURSIVE InsertRank(_, _)
InsertRank(sorted, r) ==
  IF sorted = <<>> THEN <<r>>
  ELSE LET last == sorted[Len(sorted)]
       IN IF r.Distance < last.Distance
          THEN Append(InsertRank(SubSeq(sorted, 1, Len(sorted) - 1), r), last)
          ELSE Append(sorted, r)

RECURSIVE SortRanks(_, _)
SortRanks(ranks, n) ==
  IF n = 0 THEN <<>> ELSE InsertRank(SortRanks(ranks, n - 1), ranks[n])

\* The Filtered List renderSelectMenu computes: ranked matches of the query,
\* sorted unless as many candidates match as there are Options.
FuzzyMatches(query, strs, nOptions) ==
  LET rankedResults == RankFindFold(query, strs, 1)
      ordered == IF Len(rankedResults) # nOptions
                 THEN SortRanks(rankedResults, Len(rankedResults))
                 ELSE rankedResults
  IN [i \in 1..Len(ordered) |-> ordered[i].Target]

\* ------------------------------------------------------------------- state

VARIABLES
  engine,                \* "select" or "multiselect": which printer this is
  Options,               \* p.Options: the caller's option values
  optionsStr,            \* p.optionsStr: their display texts (set by WithOptions)
  MaxHeight,             \* p.MaxHeight
  Filter,                \* p.Filter
  KeySelect,             \* p.KeySelect  (multiselect)
  KeyConfirm,            \* p.KeyConfirm (multiselect)
  EnableSelectAll,       \* p.EnableSelectAll (multiselect)
  EnableClearAll,        \* p.EnableClearAll  (multiselect)
  ShowSelectedOptions,   \* p.ShowSelectedOptions (multiselect)
  OnInterruptFunc,       \* TRUE iff a callback is registered (p.OnInterruptFunc # nil)
  defaultOptionStr,      \* p.defaultOptionStr (select); "" when none is set
  selectedOption,        \* p.selectedOption: the Focus Index
  selectedOptions,       \* p.selectedOptions: the Selection Set, in insertion order
  result,                \* p.result (select): text shown by renderFinishedMenu
  fuzzySearchString,     \* p.fuzzySearchString: the Query
  fuzzySearchMatches,    \* p.fuzzySearchMatches: the Filtered List
  displayedOptions,      \* p.displayedOptions
  displayedOptionsStart, \* p.displayedOptionsStart
  displayedOptionsEnd,   \* p.displayedOptionsEnd
  pc,                    \* where Show is: Ready, Browsing, Confirmed, Cancelled, Failed, Panicked
  canceled,              \* the flag set by cancel()
  retVal,                \* what Show returned (NoValue until it returns a value)
  retErr,                \* the error Show returned ("nil" for none)
  log,                   \* sink, cursor and callback calls made so far, in order
  lastCase,              \* case of the switch the last key event ran
  lastSlices             \* slice and index expressions the last step evaluated on
                         \* p.fuzzySearchMatches, as [lo, hi, len]

config == <<engine, Options, optionsStr, Filter, KeySelect, KeyConfirm,
            EnableSelectAll, EnableClearAll, ShowSelectedOptions,
            OnInterruptFunc, defaultOptionStr>>

fields == <<selectedOption, selectedOptions, result, fuzzySearchString,
            fuzzySearchMatches, displayedOptions, displayedOptionsStart,
            displayedOptionsEnd>>

outcome == <<canceled, retVal, retErr, log>>

history == <<lastCase, lastSlices>>

vars == <<config, MaxHeight, fields, pc, outcome, history>>

\* ----------------------------------------------------------- configuration

NoValue == [none |-> TRUE]

\* An option value: its display text (String()) and its identity.
Opt(i, text) == [id |-> i, str |-> text]

OptionsOf(texts) == [i \in 1..Len(texts) |-> Opt(i - 1, texts[i])]

StringsOf(opts) == [i \in 1..Len(opts) |-> opts[i].str]

\* Candidate lists the callers of this model pass.
StoreRanked == << <<"a", " ", "b">>, <<"b">>, <<"b", " ", "a">>, <<"a">> >>

StoreTriple == << <<"a", " ", "b">>, <<"b">>, <<"a">> >>

StoreDup == << <<"a">>, <<"B">>, <<"a">> >>

StorePair == << <<"a", "b">>, <<"b">> >>

SelectStores == {StoreRanked, StoreDup, StorePair, <<>>}

MultiselectStores == {StoreTriple, StoreDup, <<>>}

\* Characters a RuneKey event carries (Space is a key of its own).
Runes == {"a", "b"}

\* Values given to WithMaxHeight, and the constructors' own default.
Heights == ((-1)..MaxConfigHeight) \cup {DefaultMaxHeight}

KeyCodes == {"Enter", "Tab", "Space", "RuneKey", "Backspace", "Left", "Right",
             "Up", "CtrlP", "Down", "CtrlN", "CtrlC"}

\* NewGenericInteractiveSelect().WithOptions(options): Filter on, MaxHeight 5,
\* no default option, no callback.
SelectDefaults(texts) ==
  [engine |-> "select", texts |-> texts, withOptions |-> TRUE,
   MaxHeight |-> DefaultMaxHeight, Filter |-> TRUE,
   KeySelect |-> "Enter", KeyConfirm |-> "Enter",
   EnableSelectAll |-> FALSE, EnableClearAll |-> FALSE,
   ShowSelectedOptions |-> FALSE, OnInterruptFunc |-> FALSE,
   defaultOptionStr |-> EmptyStr]

\* NewGenericInteractiveMultiselect(options).WithOptions(options): Filter on,
\* MaxHeight 5, Enter selects, Tab confirms, select-all and clear-all on,
\* no summary of the chosen options, no callback.
MultiselectDefaults(texts) ==
  [engine |-> "multiselect", texts |-> texts, withOptions |-> TRUE,
   MaxHeight |-> DefaultMaxHeight, Filter |-> TRUE,
   KeySelect |-> "Enter", KeyConfirm |-> "Tab",
   EnableSelectAll |-> TRUE, EnableClearAll |-> TRUE,
   ShowSelectedOptions |-> FALSE, OnInterruptFunc |-> FALSE,
   defaultOptionStr |-> EmptyStr]

\* The select printers callers build: every combination of WithOptions (or
\* none), WithMaxHeight, WithFilter, WithOnInterruptFunc, WithDefaultOption.
SelectCallers ==
  {[SelectDefaults(texts) EXCEPT !.withOptions = w, !.MaxHeight = h,
                                 !.Filter = f, !.OnInterruptFunc = cb,
                                 !.defaultOptionStr = d] :
     texts \in SelectStores, w \in BOOLEAN, h \in Heights, f \in BOOLEAN,
     cb \in BOOLEAN, d \in {EmptyStr, <<"a">>, <<"b">>}}

\* <<EnableSelectAll, EnableClearAll, ShowSelectedOptions, OnInterruptFunc>>
FlagChoices == {<<TRUE, TRUE, FALSE, FALSE>>, <<TRUE, TRUE, TRUE, TRUE>>,
                <<FALSE, TRUE, FALSE, TRUE>>, <<TRUE, FALSE, TRUE, FALSE>>}

\* The multiselect printers callers build: the defaults with
\*   - WithMaxHeight and the four on/off settings changed,
\*   - WithMaxHeight, WithFilter, WithKeySelect and WithKeyConfirm changed,
\*   - WithOptions never called (the constructor alone stores the options),
\*   - the four-entry list at MaxHeight 2,
\*   - WithKeyConfirm or WithKeySelect given keys.CtrlC, with a callback.
MultiselectCallers ==
  {[MultiselectDefaults(texts) EXCEPT !.MaxHeight = h,
                                      !.EnableSelectAll = fl[1],
                                      !.EnableClearAll = fl[2],
                                      !.ShowSelectedOptions = fl[3],
                                      !.OnInterruptFunc = fl[4]] :
     texts \in MultiselectStores, h \in Heights, fl \in FlagChoices}
  \cup
  {[MultiselectDefaults(texts) EXCEPT !.MaxHeight = h, !.Filter = f,
                                      !.KeySelect = ks, !.KeyConfirm = kc] :
     texts \in MultiselectStores, h \in Heights, f \in BOOLEAN,
     ks \in {"Enter", "Space"}, kc \in {"Tab", "Space"}}
  \cup
  {[MultiselectDefaults(texts) EXCEPT !.withOptions = FALSE, !.MaxHeight = h] :
     texts \in MultiselectStores, h \in Heights}
  \cup
  {[MultiselectDefaults(StoreRanked) EXCEPT !.MaxHeight = 2]}
  \cup
  {[MultiselectDefaults(StoreTriple) EXCEPT !.KeyConfirm = "CtrlC",
                                            !.OnInterruptFunc = TRUE],
   [MultiselectDefaults(StoreTriple) EXCEPT !.KeySelect = "CtrlC",
                                            !.OnInterruptFunc = TRUE]}

\* The fields a printer has before Show runs: Go zero values.
ZeroFields ==
  /\ selectedOption = 0
  /\ selectedOptions = <<>>
  /\ result = EmptyStr
  /\ fuzzySearchString = EmptyStr
  /\ fuzzySearchMatches = <<>>
  /\ displayedOptions = <<>>
  /\ displayedOptionsStart = 0
  /\ displayedOptionsEnd = 0
  /\ pc = "Ready"
  /\ canceled = FALSE
  /\ retVal = NoValue
  /\ retErr = "nil"
  /\ log = <<>>
  /\ lastCase = "none"
  /\ lastSlices = {}

\* The printer value Show is called on. WithOptions fills Options and
\* optionsStr; NewGenericInteractiveMultiselect(options) alone fills Options
\* only, NewGenericInteractiveSelect() alone leaves both empty.
Configured(c) ==
  /\ engine = c.engine
  /\ Options = IF c.withOptions \/ c.engine = "multiselect"
               THEN OptionsOf(c.texts) ELSE <<>>
  /\ optionsStr = IF c.withOptions THEN c.texts ELSE <<>>
  /\ MaxHeight = c.MaxHeight
  /\ Filter = c.Filter
  /\ KeySelect = c.KeySelect
  /\ KeyConfirm = c.KeyConfirm
  /\ EnableSelectAll = c.EnableSelectAll
  /\ EnableClearAll = c.EnableClearAll
  /\ ShowSelectedOptions = c.ShowSelectedOptions
  /\ OnInterruptFunc = c.OnInterruptFunc
  /\ defaultOptionStr = c.defaultOptionStr

Init == ZeroFields /\ \E c \in SelectCallers \cup MultiselectCallers : Configured(c)

\* ------------------------------------------------- the printer as a value

\* The mutable fields of p, with what the code run so far did besides:
\* panicked (a slice or index expression out of range ended the goroutine)
\* and slices (the slice and index expressions evaluated on the Filtered List).
Cur ==
  [selectedOption |-> selectedOption,
   selectedOptions |-> selectedOptions,
   result |-> result,
   fuzzySearchString |-> fuzzySearchString,
   fuzzySearchMatches |-> fuzzySearchMatches,
   displayedOptions |-> displayedOptions,
   displayedOptionsStart |-> displayedOptionsStart,
   displayedOptionsEnd |-> displayedOptionsEnd,
   panicked |-> FALSE,
   slices |-> {}]

\* maxHeight as the callback computes it on entry.
CallbackMaxHeight(s) ==
  IF MaxHeight > Len(s.fuzzySearchMatches) THEN Len(s.fuzzySearchMatches)
  ELSE MaxHeight

\* p.displayedOptions = append([]string{}, p.fuzzySearchMatches[lo:hi]...)
\* (and the plain p.fuzzySearchMatches[:hi] of the Down case).
SliceMatches(s, lo, hi) ==
  LET n == Len(s.fuzzySearchMatches)
      noted == [s EXCEPT !.slices = @ \cup {[lo |-> lo, hi |-> hi, len |-> n]}]
  IN IF s.panicked THEN s
     ELSE IF SliceOK(lo, hi, GrowCap(0, n))
          THEN [noted EXCEPT !.displayedOptions = GoSlice(s.fuzzySearchMatches, lo, hi)]
          ELSE [noted EXCEPT !.panicked = TRUE]

\* An index of p.selectedOptions that p.optionsStr[...] cannot be read at.
BadIndex(selected) ==
  \E i \in 1..Len(selected) : selected[i] < 0 \/ selected[i] >= Len(optionsStr)

findOptionByText(text) ==
  LET hits == {i \in 1..Len(optionsStr) : optionsStr[i] = text}
  IN IF hits = {} THEN -1
     ELSE (CHOOSE i \in hits : \A j \in hits : i <= j) - 1

isSelected(selected, optionText) ==
  \E i \in 1..Len(selected) : optionsStr[selected[i] + 1] = optionText

\* selectOption written to keep the Selection Set in candidate order: a
\* newly chosen index goes before the larger ones.
selectOptionSorted(selected, optionText) ==
  LET new == findOptionByText(optionText)
  IN IF \E k \in 1..Len(selected) : optionsStr[selected[k] + 1] = optionText
     THEN LET i == CHOOSE k \in 1..Len(selected) :
                     /\ optionsStr[selected[k] + 1] = optionText
                     /\ \A j \in 1..(k - 1) : optionsStr[selected[j] + 1] # optionText
          IN SubSeq(selected, 1, i - 1) \o SubSeq(selected, i + 1, Len(selected))
     ELSE SelectSeq(selected, LAMBDA x : x < new) \o <<new>>
          \o SelectSeq(selected, LAMBDA x : x >= new)

\* selectOption written to cut the first chosen index instead of the one
\* found (append(p.selectedOptions[:0], p.selectedOptions[1:]...)).
selectOptionDropsFirst(selected, optionText) ==
  IF \E k \in 1..Len(selected) : optionsStr[selected[k] + 1] = optionText
  THEN Tail(selected)
  ELSE Append(selected, findOptionByText(optionText))

\* selectOption on a Selection Set whose indices are all readable.
selectOptionBody(selected, optionText) ==
  IF isSelected(selected, optionText)
  THEN LET i == CHOOSE k \in 1..Len(selected) :
                  /\ optionsStr[selected[k] + 1] = optionText
                  /\ \A j \in 1..(k - 1) : optionsStr[selected[j] + 1] # optionText
       IN SubSeq(selected, 1, i - 1) \o SubSeq(selected, i + 1, Len(selected))
  ELSE Append(selected, findOptionByText(optionText))

selectOption(s, optionText) ==
  IF s.panicked THEN s
  ELSE IF BadIndex(s.selectedOptions) THEN [s EXCEPT !.panicked = TRUE]
  ELSE [s EXCEPT !.selectedOptions = selectOptionBody(@, optionText)]

getSelectedOptions(selected) == [i \in 1..Len(selected) |-> Options[selected[i] + 1]]

getSelectedOptionsStr(selected) == [i \in 1..Len(selected) |-> optionsStr[selected[i] + 1]]

\* renderSelectMenu: recomputes the Filtered List from the query, then reads
\* the focused entry (select) or the texts of the chosen indices
\* (multiselect: isSelected for the visible rows, getSelectedOptionsStr).
renderSelectMenu(s) ==
  LET matches == FuzzyMatches(s.fuzzySearchString, optionsStr, Len(Options))
      s1 == [s EXCEPT !.fuzzySearchMatches = matches]
  IN IF s.panicked THEN s
     ELSE IF engine = "select"
     THEN IF Len(matches) = 0 THEN s1
          ELSE LET s2 == [s1 EXCEPT !.slices = @ \cup
                            {[lo |-> s.selectedOption, hi |-> s.selectedOption + 1,
                              len |-> Len(matches)]}]
               IN IF s.selectedOption < 0 \/ s.selectedOption >= Len(matches)
                  THEN [s2 EXCEPT !.panicked = TRUE]
                  ELSE [s2 EXCEPT !.result = matches[s.selectedOption + 1]]
     ELSE IF BadIndex(s.selectedOptions) THEN [s1 EXCEPT !.panicked = TRUE]
          ELSE s1

\* The trailing "you have selected: ..." line of the multiselect menu.
SummaryLine(selected) ==
  IF Len(selected) > 0 THEN getSelectedOptionsStr(selected) ELSE <<>>

\* ------------------------------------------------------------ Show: start

\* internal.NewCancelationSignal: the deferred exit() runs the registered
\* callback when cancel() was called.
CancelationExit(wasCanceled) ==
  IF wasCanceled /\ OnInterruptFunc THEN <<"OnInterruptFunc">> ELSE <<>>

\* The deferred calls of Show with defer cursor.Show() left out.
DeferredWithoutCursorShow(areaStarted, cursorHidden, wasCanceled) ==
  (IF areaStarted THEN <<"area.Stop">> ELSE <<>>)
    \o CancelationExit(wasCanceled)

\* The deferred calls of Show, in the order they run on any way out.
Deferred(areaStarted, cursorHidden, wasCanceled) ==
  (IF cursorHidden THEN <<"cursor.Show">> ELSE <<>>)
    \o (IF areaStarted THEN <<"area.Stop">> ELSE <<>>)
    \o CancelationExit(wasCanceled)

\* p.MaxHeight after the fallback to the library default.
EffectiveMaxHeight == IF MaxHeight = 0 THEN DefaultMaxHeight ELSE MaxHeight

\* maxHeight as Show computes it before the loop.
StartMaxHeight ==
  IF EffectiveMaxHeight > Len(optionsStr) THEN Len(optionsStr)
  ELSE EffectiveMaxHeight

\* Placement of the default option (select): focus on the first candidate
\* with that text and a window computed from its index.
PlaceDefaultOption(s) ==
  LET i == findOptionByText(defaultOptionStr)
      maxHeight == StartMaxHeight
      n == Len(optionsStr)
      moved == i > 0 /\ Len(Options) > maxHeight
      end == IF moved THEN Min(i - 1 + maxHeight, Len(Options)) ELSE maxHeight
      start == IF moved THEN end - maxHeight ELSE 0
      s1 == [s EXCEPT !.selectedOption = i,
                      !.displayedOptionsStart = start,
                      !.displayedOptionsEnd = end,
                      !.slices = @ \cup {[lo |-> start, hi |-> end, len |-> n]}]
  IN IF s.panicked \/ defaultOptionStr = EmptyStr \/ i = -1 THEN s
     ELSE IF SliceOK(start, end, n)
          THEN [s1 EXCEPT !.displayedOptions = GoSlice(optionsStr, start, end)]
          ELSE [s1 EXCEPT !.panicked = TRUE]

\* Show up to the first render: the Filtered List is the Candidate Store and
\* the window its first maxHeight rows.
ShowSetup(s) ==
  LET maxHeight == StartMaxHeight
      n == Len(optionsStr)
      s1 == [s EXCEPT !.fuzzySearchMatches = optionsStr,
                      !.slices = {[lo |-> 0, hi |-> maxHeight, len |-> n]}]
      s2 == [s1 EXCEPT !.displayedOptions = GoSlice(optionsStr, 0, maxHeight),
                       !.displayedOptionsStart = 0,
                       !.displayedOptionsEnd = maxHeight]
  IN IF ~SliceOK(0, maxHeight, n) THEN [s1 EXCEPT !.panicked = TRUE]
     ELSE renderSelectMenu(IF engine = "select" THEN PlaceDefaultOption(s2) ELSE s2)

SetFields(s) ==
  /\ selectedOption' = s.selectedOption
  /\ selectedOptions' = s.selectedOptions
  /\ result' = s.result
  /\ fuzzySearchString' = s.fuzzySearchString
  /\ fuzzySearchMatches' = s.fuzzySearchMatches
  /\ displayedOptions' = s.displayedOptions
  /\ displayedOptionsStart' = s.displayedOptionsStart
  /\ displayedOptionsEnd' = s.displayedOptionsEnd

SpaceKeyConflict ==
  engine = "multiselect" /\ Filter /\ (KeyConfirm = "Space" \/ KeySelect = "Space")

\* The test of len(p.Options) left out.
OptionsMissingUnchecked == FALSE

\* if len(p.Options) == 0
OptionsMissing == Len(Options) = 0

\* Show from its first line to the call of keyboard.Listen.
Show ==
  /\ pc = "Ready"
  /\ MaxHeight' = EffectiveMaxHeight
  /\ UNCHANGED <<config, canceled, retVal, lastCase>>
  /\ IF OptionsMissing
     THEN /\ SetFields([Cur EXCEPT !.fuzzySearchMatches = optionsStr])
          /\ pc' = "Failed"
          /\ retErr' = "no options provided"
          /\ log' = Deferred(FALSE, FALSE, FALSE)
          /\ lastSlices' = {}
     ELSE LET s == ShowSetup(Cur)
          IN /\ SetFields(s)
             /\ lastSlices' = s.slices
             /\ IF s.panicked
                THEN /\ pc' = "Panicked"
                     /\ retErr' = retErr
                     /\ log' = Deferred(FALSE, FALSE, FALSE)
                ELSE \E areaStarts \in BOOLEAN :
                       IF ~areaStarts
                       THEN /\ pc' = "Failed"
                            /\ retErr' = "could not start area"
                            /\ log' = <<"area.Start">> \o Deferred(TRUE, FALSE, FALSE)
                       ELSE IF SpaceKeyConflict
                       THEN /\ pc' = "Failed"
                            /\ retErr' = "keys.Space can not be used"
                            /\ log' = <<"area.Start">> \o Deferred(TRUE, FALSE, FALSE)
                       ELSE /\ pc' = "Browsing"
                            /\ retErr' = retErr
                            /\ log' = <<"area.Start", "cursor.Hide">>

\* ------------------------------------------- the cases of the key callback

\* case keys.RuneKey
RuneKeyCase(s, char) ==
  LET maxHeight == CallbackMaxHeight(s)
      typed == [s EXCEPT !.fuzzySearchString = Append(@, char),
                         !.selectedOption = 0,
                         !.displayedOptionsStart = 0,
                         !.displayedOptionsEnd = maxHeight]
      reset == SliceMatches(typed, 0, maxHeight)
  IN IF engine = "multiselect"
     THEN renderSelectMenu(IF Filter THEN reset ELSE s)
     ELSE IF Filter THEN renderSelectMenu(reset) ELSE s

\* case keys.Space written to start the selection over with the new query.
SpaceCaseClearsSelection(s) ==
  LET typed == [s EXCEPT !.fuzzySearchString = Append(@, " "),
                         !.selectedOption = 0,
                         !.selectedOptions = <<>>]
  IN IF engine = "multiselect"
     THEN IF Filter THEN renderSelectMenu(typed) ELSE s
     ELSE renderSelectMenu(typed)

\* case keys.Space
SpaceCase(s) ==
  LET typed == [s EXCEPT !.fuzzySearchString = Append(@, " "),
                         !.selectedOption = 0]
  IN IF engine = "multiselect"
     THEN IF Filter THEN renderSelectMenu(typed) ELSE s
     ELSE renderSelectMenu(typed)

\* case keys.Backspace without the renders: the Filtered List is reset for an
\* empty query and otherwise kept as the longer query left it.
BackspaceCaseStaleMatches(s) ==
  LET q == s.fuzzySearchString
      shorter == IF Len(q) > 0 THEN SubSeq(q, 1, Len(q) - 1) ELSE q
      s1 == [s EXCEPT !.fuzzySearchString = shorter,
                      !.fuzzySearchMatches = IF shorter = EmptyStr THEN optionsStr ELSE @]
      n == Len(s1.fuzzySearchMatches)
      maxHeight == IF n > MaxHeight THEN MaxHeight ELSE n
      s3 == [s1 EXCEPT !.selectedOption = 0,
                       !.displayedOptionsStart = 0,
                       !.displayedOptionsEnd = maxHeight]
  IN SliceMatches(s3, 0, maxHeight)

\* case keys.Backspace
BackspaceCase(s) ==
  LET q == s.fuzzySearchString
      shorter == IF Len(q) > 0 THEN SubSeq(q, 1, Len(q) - 1) ELSE q
      s1 == [s EXCEPT !.fuzzySearchString = shorter,
                      !.fuzzySearchMatches = IF shorter = EmptyStr THEN optionsStr ELSE @]
      s2 == renderSelectMenu(s1)
      n == Len(s2.fuzzySearchMatches)
      maxHeight == IF n > MaxHeight THEN MaxHeight ELSE n
      s3 == [s2 EXCEPT !.selectedOption = 0,
                       !.displayedOptionsStart = 0,
                       !.displayedOptionsEnd = maxHeight]
  IN IF s2.panicked THEN s2
     ELSE renderSelectMenu(SliceMatches(s3, 0, maxHeight))

\* case keys.Left
LeftCase(s) ==
  IF EnableClearAll
  THEN renderSelectMenu([s EXCEPT !.selectedOptions = <<>>])
  ELSE s

\* case keys.Right
RightCase(s) ==
  IF EnableSelectAll
  THEN renderSelectMenu([s EXCEPT !.selectedOptions = [i \in 1..Len(Options) |-> i - 1]])
  ELSE s

\* case keys.Up, keys.CtrlP with p.MaxHeight for maxHeight where the focus
\* wraps to the last index.
UpCaseWrapsByMaxHeight(s) ==
  LET maxHeight == CallbackMaxHeight(s)
      n == Len(s.fuzzySearchMatches)
      up == [s EXCEPT !.selectedOption = @ - 1]
      slid == [up EXCEPT !.displayedOptionsStart = @ - 1,
                         !.displayedOptionsEnd = @ - 1]
      clamped == IF slid.displayedOptionsStart < 0
                 THEN [slid EXCEPT !.displayedOptionsStart = 0,
                                   !.displayedOptionsEnd = maxHeight]
                 ELSE slid
      wrapped == [s EXCEPT !.selectedOption = n - 1,
                           !.displayedOptionsStart = n - MaxHeight,
                           !.displayedOptionsEnd = n]
  IN IF n = 0 THEN s
     ELSE renderSelectMenu(
            IF s.selectedOption > 0
            THEN IF up.selectedOption < up.displayedOptionsStart
                 THEN SliceMatches(clamped, clamped.displayedOptionsStart,
                                   clamped.displayedOptionsEnd)
                 ELSE up
            ELSE SliceMatches(wrapped, n - MaxHeight, n))

\* case keys.Up, keys.CtrlP
UpCase(s) ==
  LET maxHeight == CallbackMaxHeight(s)
      n == Len(s.fuzzySearchMatches)
      up == [s EXCEPT !.selectedOption = @ - 1]
      slid == [up EXCEPT !.displayedOptionsStart = @ - 1,
                         !.displayedOptionsEnd = @ - 1]
      clamped == IF slid.displayedOptionsStart < 0
                 THEN [slid EXCEPT !.displayedOptionsStart = 0,
                                   !.displayedOptionsEnd = maxHeight]
                 ELSE slid
      wrapped == [s EXCEPT !.selectedOption = n - 1,
                           !.displayedOptionsStart = n - maxHeight,
                           !.displayedOptionsEnd = n]
  IN IF n = 0 THEN s
     ELSE renderSelectMenu(
            IF s.selectedOption > 0
            THEN IF up.selectedOption < up.displayedOptionsStart
                 THEN SliceMatches(clamped, clamped.displayedOptionsStart,
                                   clamped.displayedOptionsEnd)
                 ELSE up
            ELSE SliceMatches(wrapped, n - maxHeight, n))

\* case keys.Down, keys.CtrlN with > for >= in the test that slides the
\* window.
DownCaseSlidesLate(s) ==
  LET maxHeight == CallbackMaxHeight(s)
      n == Len(s.fuzzySearchMatches)
      first == SliceMatches(s, 0, maxHeight)
      down == [first EXCEPT !.selectedOption = @ + 1]
      slid == [down EXCEPT !.displayedOptionsStart = @ + 1,
                           !.displayedOptionsEnd = @ + 1]
      wrapped == [first EXCEPT !.selectedOption = 0,
                               !.displayedOptionsStart = 0,
                               !.displayedOptionsEnd = maxHeight]
  IN IF n = 0 THEN s
     ELSE renderSelectMenu(
            IF s.selectedOption < n - 1
            THEN IF down.selectedOption > down.displayedOptionsEnd
                 THEN SliceMatches(slid, slid.displayedOptionsStart,
                                   slid.displayedOptionsEnd)
                 ELSE down
            ELSE SliceMatches(wrapped, 0, maxHeight))

\* case keys.Down, keys.CtrlN
DownCase(s) ==
  LET maxHeight == CallbackMaxHeight(s)
      n == Len(s.fuzzySearchMatches)
      first == SliceMatches(s, 0, maxHeight)
      down == [first EXCEPT !.selectedOption = @ + 1]
      slid == [down EXCEPT !.displayedOptionsStart = @ + 1,
                           !.displayedOptionsEnd = @ + 1]
      wrapped == [first EXCEPT !.selectedOption = 0,
                               !.displayedOptionsStart = 0,
                               !.displayedOptionsEnd = maxHeight]
  IN IF n = 0 THEN s
     ELSE renderSelectMenu(
            IF s.selectedOption < n - 1
            THEN IF down.selectedOption >= down.displayedOptionsEnd
                 THEN SliceMatches(slid, slid.displayedOptionsStart,
                                   slid.displayedOptionsEnd)
                 ELSE down
            ELSE SliceMatches(wrapped, 0, maxHeight))

\* case p.KeySelect (multiselect)
KeySelectCase(s) ==
  LET n == Len(s.fuzzySearchMatches)
      i == s.selectedOption
      read == [s EXCEPT !.slices = @ \cup {[lo |-> i, hi |-> i + 1, len |-> n]}]
  IN IF n = 0 THEN renderSelectMenu(s)
     ELSE IF i < 0 \/ i >= n THEN [read EXCEPT !.panicked = TRUE]
     ELSE renderSelectMenu(selectOption(read, s.fuzzySearchMatches[i + 1]))

\* What Show returns once the loop has ended without an error:
\* p.Options[p.selectedOption] or p.getSelectedOptions().
ShowResult(s) ==
  IF engine = "select" THEN Options[s.selectedOption + 1]
  ELSE getSelectedOptions(s.selectedOptions)

\* The index expressions of ShowResult are in range.
ShowResultOK(s) ==
  IF engine = "select"
  THEN s.selectedOption >= 0 /\ s.selectedOption < Len(Options)
  ELSE \A i \in 1..Len(s.selectedOptions) :
         s.selectedOptions[i] >= 0 /\ s.selectedOptions[i] < Len(Options)

\* What renderFinishedMenu shows as chosen: p.result, or the chosen Options.
renderFinishedMenu(s) ==
  IF engine = "select" THEN <<s.result>>
  ELSE StringsOf(getSelectedOptions(s.selectedOptions))

\* ------------------------------------------------------- the key callback

\* The case of the switch a key code runs: p.KeyConfirm and p.KeySelect are
\* tested first (multiselect), then the fixed keys; "other" is no case at all.
CaseOf(code) ==
  LET fixed == IF code \in {"Up", "CtrlP"} THEN "Up"
               ELSE IF code \in {"Down", "CtrlN"} THEN "Down"
               ELSE IF code \in {"RuneKey", "Space", "Backspace", "CtrlC"} THEN code
               ELSE "other"
  IN IF engine = "multiselect"
     THEN IF code = KeyConfirm THEN "KeyConfirm"
          ELSE IF code = KeySelect THEN "KeySelect"
          ELSE IF code \in {"Left", "Right"} THEN code
          ELSE fixed
     ELSE IF code = "Enter" THEN "Enter" ELSE fixed

Pressed(case) == pc = "Browsing" /\ \E code \in KeyCodes : CaseOf(code) = case

\* One run of the callback that ended in state s of the printer; stop says
\* whether it returned stop = true ("confirm", "cancel") or not ("no"), and
\* then Show returns and its deferred calls run.
Handled(case, s, stop) ==
  /\ SetFields(s)
  /\ UNCHANGED <<config, MaxHeight>>
  /\ lastCase' = case
  /\ lastSlices' = s.slices
  /\ canceled' = (canceled \/ stop = "cancel")
  /\ IF s.panicked \/ (stop # "no" /\ ~ShowResultOK(s))
     THEN /\ pc' = "Panicked"
          /\ UNCHANGED <<retVal, retErr>>
          /\ log' = log \o Deferred(TRUE, TRUE, canceled')
     ELSE IF stop = "no"
     THEN UNCHANGED <<pc, retVal, retErr, log>>
     ELSE /\ pc' = IF stop = "confirm" THEN "Confirmed" ELSE "Cancelled"
          /\ retVal' = ShowResult(s)
          /\ retErr' = "nil"
          /\ log' = log \o Deferred(TRUE, TRUE, canceled')

\* case p.KeyConfirm without the test of an empty Filtered List.
OnKeyConfirmUnguarded ==
  /\ Pressed("KeyConfirm")
  /\ Handled("KeyConfirm", Cur, "confirm")

OnKeyConfirm ==
  /\ Pressed("KeyConfirm")
  /\ IF Len(fuzzySearchMatches) = 0
     THEN Handled("KeyConfirm", Cur, "no")
     ELSE Handled("KeyConfirm", Cur, "confirm")

OnEnter ==
  /\ Pressed("Enter")
  /\ IF Len(fuzzySearchMatches) = 0
     THEN Handled("Enter", Cur, "no")
     ELSE Handled("Enter", Cur, "confirm")

OnKeySelect ==
  /\ Pressed("KeySelect")
  /\ Handled("KeySelect", KeySelectCase(Cur), "no")

\* The query grows only up to MaxQueryLen characters.
OnRuneKey ==
  /\ Pressed("RuneKey")
  /\ Filter => Len(fuzzySearchString) < MaxQueryLen
  /\ \E char \in Runes : Handled("RuneKey", RuneKeyCase(Cur, char), "no")

OnSpace ==
  /\ Pressed("Space")
  /\ Len(fuzzySearchString) < MaxQueryLen
  /\ Handled("Space", SpaceCase(Cur), "no")

OnBackspace ==
  /\ Pressed("Backspace")
  /\ Handled("Backspace", BackspaceCase(Cur), "no")

OnLeft ==
  /\ Pressed("Left")
  /\ Handled("Left", LeftCase(Cur), "no")

OnRight ==
  /\ Pressed("Right")
  /\ Handled("Right", RightCase(Cur), "no")

OnUp ==
  /\ Pressed("Up")
  /\ Handled("Up", UpCase(Cur), "no")

OnDown ==
  /\ Pressed("Down")
  /\ Handled("Down", DownCase(Cur), "no")

OnCtrlC ==
  /\ Pressed("CtrlC")
  /\ Handled("CtrlC", Cur, "cancel")

\* A key no case matches: the callback returns false, nil.
OnOtherKey ==
  /\ Pressed("other")
  /\ Handled("other", Cur, "no")

\* keyboard.Listen returns an error: Show reports it.
ListenFails ==
  /\ pc = "Browsing"
  /\ pc' = "Failed"
  /\ retErr' = "failed to start keyboard listener"
  /\ log' = log \o Deferred(TRUE, TRUE, canceled)
  /\ UNCHANGED <<config, MaxHeight, fields, canceled, retVal, history>>

Next ==
  \/ Show
  \/ OnKeyConfirm
  \/ OnEnter
  \/ OnKeySelect
  \/ OnRuneKey
  \/ OnSpace
  \/ OnBackspace
  \/ OnLeft
  \/ OnRight
  \/ OnUp
  \/ OnDown
  \/ OnCtrlC
  \/ OnOtherKey
  \/ ListenFails

Spec == Init /\ [][Next]_vars

\* ------------------------------------------------------------- properties

\* Show has started the loop and not failed: Browsing, or ended by a key.
Started == pc \in {"Browsing", "Confirmed", "Cancelled"}

\* At least one key event has been processed to its end.
KeyProcessed == Started /\ lastCase # "none"

Multiselect == engine = "multiselect"

ViewportOK ==
  /\ 0 <= displayedOptionsStart
  /\ displayedOptionsStart <= selectedOption
  /\ selectedOption < displayedOptionsEnd
  /\ displayedOptionsEnd <= Len(fuzzySearchMatches)
  /\ displayedOptionsEnd - displayedOptionsStart <= MaxHeight

\* C1: with a non-empty Candidate Store and MaxHeight >= 1, after every key
\* event processed to its end with a non-empty Filtered List,
\* 0 <= start <= Focus Index < end <= len(Filtered List) and
\* end - start <= MaxHeight.
C1_ViewportInvariant ==
  (Len(optionsStr) > 0 /\ MaxHeight >= 1 /\ KeyProcessed
     /\ Len(fuzzySearchMatches) > 0)
  => ViewportOK

\* C2: with a non-empty Candidate Store and MaxHeight >= 1, every slice and
\* index expression a key event evaluates on the Filtered List lies within
\* [0, len(Filtered List)], and the window start is never negative.
C2_SlicesInRange ==
  (Len(optionsStr) > 0 /\ MaxHeight >= 1 /\ lastCase # "none")
  => /\ \A t \in lastSlices : 0 <= t.lo /\ t.lo <= t.hi /\ t.hi <= t.len
     /\ displayedOptionsStart >= 0

\* C3: select: when Enter is accepted, the Option Show returns has the display
\* text of the Filtered List entry at the Focus Index, the entry the final
\* render shows.
C3_ConfirmReturnsFocused ==
  (engine = "select" /\ pc = "Confirmed")
  => /\ retVal.str = fuzzySearchMatches[selectedOption + 1]
     /\ <<retVal.str>> = renderFinishedMenu(Cur)

\* C4: with filtering disabled the Query stays empty and the Filtered List
\* equals the Candidate Store in original order, whatever keys were pressed.
C4_FilterOffQueryEmpty ==
  (~Filter /\ Started)
  => fuzzySearchString = EmptyStr /\ fuzzySearchMatches = optionsStr

\* C5: multiselect: RuneKey, Space, Backspace, Up and Down leave the Selection
\* Set as it was; hence, once the query is empty again, every chosen index is
\* a readable Candidate Store index whose text is in the Filtered List and
\* tests as chosen.
C5_SelectionSurvivesQuery ==
  /\ [][(Multiselect /\ (OnRuneKey \/ OnSpace \/ OnBackspace \/ OnUp \/ OnDown))
        => selectedOptions' = selectedOptions]_vars
  /\ [](Multiselect /\ pc = "Browsing" /\ fuzzySearchString = EmptyStr
        => \A i \in 1..Len(selectedOptions) :
             /\ selectedOptions[i] >= 0
             /\ selectedOptions[i] < Len(optionsStr)
             /\ optionsStr[selectedOptions[i] + 1] \in ToSet(fuzzySearchMatches)
             /\ isSelected(selectedOptions, optionsStr[selectedOptions[i] + 1]))

\* C5 witness: right after a typed character narrowed the Filtered List, an
\* entry it no longer holds is still chosen.
C5_Witness ==
  /\ Multiselect
  /\ pc = "Browsing"
  /\ Filter
  /\ lastCase = "RuneKey"
  /\ selectedOptions # <<>>
  /\ \E i \in 1..Len(selectedOptions) :
       optionsStr[selectedOptions[i] + 1] \notin ToSet(fuzzySearchMatches)

\* Position of the first x in seq.
Pos(seq, x) == CHOOSE i \in 1..Len(seq) : seq[i] = x /\ \A j \in 1..(i - 1) : seq[j] # x

\* Indices in both sequences keep their relative order.
KeepsOrder(old, new) ==
  \A x, y \in ToSet(old) \cap ToSet(new) :
    Pos(old, x) < Pos(old, y) => Pos(new, x) < Pos(new, y)

\* An index only in new is its last element.
AddedLast(old, new) ==
  \A x \in ToSet(new) \ ToSet(old) : new[Len(new)] = x

\* C6: multiselect: the select key puts a newly chosen index after all
\* chosen before and keeps the order of the others, and an accepted confirm
\* returns the Options at the chosen indices in that order.
C6_ResultInInsertionOrder ==
  /\ [][(Multiselect /\ OnKeySelect)
        => /\ KeepsOrder(selectedOptions, selectedOptions')
           /\ AddedLast(selectedOptions, selectedOptions')]_vars
  /\ [](Multiselect /\ pc = "Confirmed"
        => /\ Len(retVal) = Len(selectedOptions)
           /\ \A i \in 1..Len(retVal) :
                /\ retVal[i].id = selectedOptions[i]
                /\ retVal[i].str = optionsStr[selectedOptions[i] + 1])

\* C6 witness: a confirmed result whose order is not the candidate order.
C6_Witness ==
  /\ Multiselect
  /\ pc = "Confirmed"
  /\ Len(retVal) = 2
  /\ retVal[1].id > retVal[2].id

\* The printer after the select key was pressed twice in a row.
SelectedTwice ==
  LET once == KeySelectCase(Cur)
  IN IF once.panicked THEN once ELSE KeySelectCase(once)

FocusedText == fuzzySearchMatches[selectedOption + 1]

\* No chosen index carries the focused text, or only the first candidate
\* index with that text does.
OnlyFirstChosen ==
  \A i \in 1..Len(selectedOptions) :
    optionsStr[selectedOptions[i] + 1] = FocusedText
      => selectedOptions[i] = findOptionByText(FocusedText)

\* C7 as claimed: multiselect: with a non-empty Filtered List, pressing the
\* select key twice in a row leaves the Selection Set (as a set of indices)
\* what it was.
C7_ToggleTwice ==
  (Multiselect /\ pc = "Browsing" /\ Len(fuzzySearchMatches) > 0)
  => /\ ~SelectedTwice.panicked
     /\ ToSet(SelectedTwice.selectedOptions) = ToSet(selectedOptions)

\* C7 as amended: the same, when no chosen index other than the first
\* candidate index with the focused text carries that text.
C7_ToggleTwiceFirstChosen ==
  (Multiselect /\ pc = "Browsing" /\ Len(fuzzySearchMatches) > 0
     /\ OnlyFirstChosen)
  => /\ ~SelectedTwice.panicked
     /\ ToSet(SelectedTwice.selectedOptions) = ToSet(selectedOptions)

\* C7 witness: right after a select press that chose the focused entry, with
\* another entry chosen before it.
C7_Witness ==
  /\ Multiselect
  /\ pc = "Browsing"
  /\ lastCase = "KeySelect"
  /\ Len(fuzzySearchMatches) > 0
  /\ OnlyFirstChosen
  /\ Len(selectedOptions) >= 2
  /\ isSelected(selectedOptions, FocusedText)

AllIndices == [i \in 1..Len(optionsStr) |-> i - 1]

\* C8: multiselect with select-all and clear-all enabled: from any state of
\* the loop, Right then Left yields an empty Selection Set and Left then
\* Right yields the indices 0..len(Candidate Store)-1 in store order.
C8_SelectAllClearAll ==
  (Multiselect /\ pc = "Browsing" /\ EnableSelectAll /\ EnableClearAll)
  => LET all == RightCase(Cur)
         cleared == LeftCase(Cur)
         allAgain == RightCase(cleared)
     IN /\ ~all.panicked
        /\ LeftCase(all).selectedOptions = <<>>
        /\ ~cleared.panicked
        /\ ~allAgain.panicked
        /\ allAgain.selectedOptions = AllIndices

\* C8 for the printers WithOptions configured (Candidate Store as long as
\* Options): not the claim, which covers every printer.
SelectAllClearAllWithOptions ==
  Len(optionsStr) = Len(Options) => C8_SelectAllClearAll

\* C9: when Ctrl-C ends the loop, the callback has run, or Show returns an
\* error, or Show returns an empty result.
C9_CancelObservable ==
  pc = "Cancelled"
  => \/ "OnInterruptFunc" \in ToSet(log)
     \/ retErr # "nil"
     \/ (Multiselect /\ retVal = <<>>)

\* C10: after a key event changed the query, Focus Index = 0, start = 0 and
\* end = min(MaxHeight, len(Filtered List)) for the new Filtered List.
C10_QueryChangeResets ==
  [][(fuzzySearchString' # fuzzySearchString /\ pc' = "Browsing")
     => /\ selectedOption' = 0
        /\ displayedOptionsStart' = 0
        /\ displayedOptionsEnd' = Min(MaxHeight', Len(fuzzySearchMatches'))]_vars

\* C11: Show called with no options returns the error "no options provided"
\* with the output sink never started (the first render is the one handed to
\* area.Start), no key event processed, no value returned and nothing chosen.
C11_NoOptionsError ==
  (Len(Options) = 0 /\ pc # "Ready")
  => /\ pc = "Failed"
     /\ retErr = "no options provided"
     /\ retVal = NoValue
     /\ log = <<>>
     /\ lastCase = "none"
     /\ selectedOptions = <<>>
     /\ result = EmptyStr

\* C11 witness: Show has returned for a printer without options.
C11_Witness ==
  /\ Len(Options) = 0
  /\ pc = "Failed"
  /\ retErr = "no options provided"

\* Show returned an error before the loop began: no key event was processed,
\* nothing was chosen, no value was returned, the cursor was never hidden.
FailedBeforeLoop ==
  /\ pc = "Failed"
  /\ retErr # "nil"
  /\ retVal = NoValue
  /\ lastCase = "none"
  /\ selectedOptions = <<>>
  /\ "cursor.Hide" \notin ToSet(log)

\* C12: multiselect with filtering on and the space key as select or confirm
\* key: Show returns a configuration error, the loop never begins, and the
\* sink that was started before the check is stopped before Show returns.
C12_SpaceKeyConfigError ==
  (SpaceKeyConflict /\ pc # "Ready")
  => /\ FailedBeforeLoop
     /\ (Len(Options) > 0 /\ retErr # "could not start area")
          => /\ retErr = "keys.Space can not be used"
             /\ log = <<"area.Start", "area.Stop">>

\* C12 for the printers whose MaxHeight is not negative: not the claim, which
\* covers every MaxHeight.
SpaceKeyConfigErrorNonNegative ==
  MaxHeight >= 0 => C12_SpaceKeyConfigError

\* C16: Show on a printer with options and MaxHeight <= 0 sets MaxHeight to
\* the library default and goes on as with that height: no slice out of
\* range, and a window of min(default, len(Candidate Store)) rows.
C16_NonPositiveHeightFallsBack ==
  [][(Show /\ MaxHeight <= 0 /\ Len(Options) > 0)
     => /\ MaxHeight' = DefaultMaxHeight
        /\ pc' # "Panicked"
        /\ \A t \in lastSlices' : 0 <= t.lo /\ t.lo <= t.hi /\ t.hi <= t.len
        /\ displayedOptionsEnd' - displayedOptionsStart'
             = Min(DefaultMaxHeight, Len(optionsStr))]_vars

\* C16 for MaxHeight = 0, the one value the code replaces: not the claim,
\* which covers the negative values too.
ZeroHeightFallsBack ==
  [][(Show /\ MaxHeight = 0 /\ Len(Options) > 0)
     => /\ MaxHeight' = DefaultMaxHeight
        /\ pc' # "Panicked"
        /\ \A t \in lastSlices' : 0 <= t.lo /\ t.lo <= t.hi /\ t.hi <= t.len
        /\ displayedOptionsEnd' - displayedOptionsStart'
             = Min(DefaultMaxHeight, Len(optionsStr))]_vars

\* Show is over: it returned, or a panic unwound it.
Terminal == pc \in {"Confirmed", "Cancelled", "Failed", "Panicked"}

\* The call named after occurs in the log later than the call named before.
Follows(before, after) ==
  \E i, j \in 1..Len(log) : i < j /\ log[i] = before /\ log[j] = after

\* C13: once Show is over, a sink that was started has been stopped and a
\* cursor that was hidden has been shown again, on every way out: confirm,
\* cancel, key configuration error, sink start error, listener error.
C13_SinkAndCursorRestored ==
  Terminal
  => /\ "area.Start" \in ToSet(log) => Follows("area.Start", "area.Stop")
     /\ "cursor.Hide" \in ToSet(log) => Follows("cursor.Hide", "cursor.Show")
     /\ log # <<>> => log[Len(log)] \in {"area.Stop", "OnInterruptFunc"}

\* C13 witness: the listener failed after the cursor was hidden.
C13_Witness ==
  /\ pc = "Failed"
  /\ retErr = "failed to start keyboard listener"
  /\ "cursor.Hide" \in ToSet(log)
  /\ lastCase # "none"

\* C14: with an empty Filtered List the confirm key is ignored (the loop goes
\* on, Show returns nothing, no field changes), and Up, Down and the select
\* key leave query, Filtered List, Focus Index, window and Selection Set as
\* they were.
C14_EmptyListNoOps ==
  [][(pc = "Browsing" /\ Len(fuzzySearchMatches) = 0)
     => /\ (OnKeyConfirm \/ OnEnter)
             => /\ pc' = "Browsing"
                /\ UNCHANGED <<fields, retVal, retErr, log>>
        /\ (OnUp \/ OnDown \/ OnKeySelect)
             => /\ pc' = "Browsing"
                /\ UNCHANGED <<fuzzySearchString, fuzzySearchMatches,
                               selectedOption, displayedOptionsStart,
                               displayedOptionsEnd, selectedOptions>>]_vars

\* C14 witness: the confirm key was pressed on an empty Filtered List that a
\* query had emptied, and the loop goes on.
C14_Witness ==
  /\ pc = "Browsing"
  /\ Len(optionsStr) > 0
  /\ Len(fuzzySearchMatches) = 0
  /\ fuzzySearchString # EmptyStr
  /\ lastCase \in {"KeyConfirm", "Enter"}

\* The printer after the key case typed ran and Backspace ran right after it.
ThenBackspace(typed) == IF typed.panicked THEN typed ELSE BackspaceCase(typed)

\* Appending and removing left query and Filtered List what they are now.
RoundTrip(typed) ==
  /\ ~ThenBackspace(typed).panicked
  /\ ThenBackspace(typed).fuzzySearchString = fuzzySearchString
  /\ ThenBackspace(typed).fuzzySearchMatches = fuzzySearchMatches

\* C15: with filtering on, in every state of the loop, a typed character (or
\* a space) followed at once by Backspace leaves the Filtered List with the
\* entries and the order it had before.
C15_AppendBackspaceRoundTrip ==
  (pc = "Browsing" /\ Filter)
  => /\ \A char \in Runes : RoundTrip(RuneKeyCase(Cur, char))
     /\ RoundTrip(SpaceCase(Cur))

\* C15 witness: Backspace has just cut a longer query back to a non-empty
\* one whose Filtered List is narrowed, and one more character narrows it
\* further.
C15_Witness ==
  /\ pc = "Browsing"
  /\ Filter
  /\ lastCase = "Backspace"
  /\ fuzzySearchString # EmptyStr
  /\ Len(fuzzySearchMatches) > 0
  /\ Len(fuzzySearchMatches) < Len(optionsStr)
  /\ \E char \in Runes :
       RuneKeyCase(Cur, char).fuzzySearchMatches # fuzzySearchMatches

\* C17: multiselect: the block on screen during the loop ends with the line
\* of the chosen items only if ShowSelectedOptions is on and the Selection
\* Set is not empty; with the setting off no state shows the line.
C17_SummaryOnlyWhenEnabled ==
  (Multiselect /\ pc = "Browsing" /\ SummaryLine(selectedOptions) # <<>>)
  => ShowSelectedOptions /\ selectedOptions # <<>>

\* The window of printer value s.
Window(s) == <<s.displayedOptionsStart, s.displayedOptionsEnd>>

\* C18: in a state of the loop that satisfies the viewport invariant, Down
\* below the last index moves the focus one down and the window one down
\* exactly when the new focus is >= end; Up above index 0 moves the focus
\* one up and the window one up exactly when the new focus is < start, and
\* the window start does not go below 0.
C18_NavigationSlides ==
  (pc = "Browsing" /\ Len(fuzzySearchMatches) > 0 /\ ViewportOK)
  => /\ selectedOption < Len(fuzzySearchMatches) - 1
          => /\ ~DownCase(Cur).panicked
             /\ DownCase(Cur).selectedOption = selectedOption + 1
             /\ Window(DownCase(Cur)) =
                  IF selectedOption + 1 >= displayedOptionsEnd
                  THEN <<displayedOptionsStart + 1, displayedOptionsEnd + 1>>
                  ELSE <<displayedOptionsStart, displayedOptionsEnd>>
     /\ selectedOption > 0
          => /\ ~UpCase(Cur).panicked
             /\ UpCase(Cur).selectedOption = selectedOption - 1
             /\ UpCase(Cur).displayedOptionsStart >= 0
             /\ Window(UpCase(Cur)) =
                  IF selectedOption - 1 < displayedOptionsStart
                  THEN <<displayedOptionsStart - 1, displayedOptionsEnd - 1>>
                  ELSE <<displayedOptionsStart, displayedOptionsEnd>>

\* C18 witness: Down has just slid the window past the first rows, and both
\* Down and Up can move the focus again.
C18_Witness ==
  /\ pc = "Browsing"
  /\ lastCase = "Down"
  /\ ViewportOK
  /\ displayedOptionsStart > 0
  /\ selectedOption = displayedOptionsEnd - 1
  /\ selectedOption < Len(fuzzySearchMatches) - 1

\* The printer after k presses of Down in a row, and of Up.
RECURSIVE Downs(_, _)
Downs(s, k) == IF k = 0 \/ s.panicked THEN s ELSE Downs(DownCase(s), k - 1)

RECURSIVE Ups(_, _)
Ups(s, k) == IF k = 0 \/ s.panicked THEN s ELSE Ups(UpCase(s), k - 1)

\* min(MaxHeight, len(Filtered List))
Height == Min(MaxHeight, Len(fuzzySearchMatches))

\* C19: with a non-empty Filtered List of n entries and height =
\* min(MaxHeight, n): Up at focus 0 gives focus n-1 and window [n-height, n);
\* Down at focus n-1 gives focus 0 and window [0, height); n Downs in a row
\* from focus 0 end at focus 0, and so do n Ups.
C19_NavigationWraps ==
  (pc = "Browsing" /\ Len(fuzzySearchMatches) > 0)
  => /\ selectedOption = 0
          => /\ ~UpCase(Cur).panicked
             /\ UpCase(Cur).selectedOption = Len(fuzzySearchMatches) - 1
             /\ Window(UpCase(Cur)) =
                  <<Len(fuzzySearchMatches) - Height, Len(fuzzySearchMatches)>>
             /\ ~Downs(Cur, Len(fuzzySearchMatches)).panicked
             /\ Downs(Cur, Len(fuzzySearchMatches)).selectedOption = 0
             /\ ~Ups(Cur, Len(fuzzySearchMatches)).panicked
             /\ Ups(Cur, Len(fuzzySearchMatches)).selectedOption = 0
     /\ selectedOption = Len(fuzzySearchMatches) - 1
          => /\ ~DownCase(Cur).panicked
             /\ DownCase(Cur).selectedOption = 0
             /\ Window(DownCase(Cur)) = <<0, Height>>

\* C19 witness: Up at focus 0 has just wrapped to the last of at least three
\* entries, with a window shorter than the list.
C19_Witness ==
  /\ pc = "Browsing"
  /\ lastCase = "Up"
  /\ Len(fuzzySearchMatches) >= 3
  /\ selectedOption = Len(fuzzySearchMatches) - 1
  /\ displayedOptionsStart = Len(fuzzySearchMatches) - Height
  /\ displayedOptionsStart > 0
  /\ displayedOptionsEnd = Len(fuzzySearchMatches)

\* Show has reached the loop and no key event has been processed.
AtStartup == pc = "Browsing" /\ lastCase = "none"

\* C20: select with a default option whose text is in the Candidate Store and
\* MaxHeight >= 1: at startup the Focus Index is the index of the first
\* candidate with that text, 0 <= start <= Focus Index < end <=
\* len(Candidate Store), and Enter pressed at once returns that option.
C20_DefaultOptionPlaced ==
  (engine = "select" /\ AtStartup /\ MaxHeight >= 1
     /\ defaultOptionStr # EmptyStr /\ defaultOptionStr \in ToSet(optionsStr))
  => /\ selectedOption = findOptionByText(defaultOptionStr)
     /\ 0 <= displayedOptionsStart
     /\ displayedOptionsStart <= selectedOption
     /\ selectedOption < displayedOptionsEnd
     /\ displayedOptionsEnd <= Len(optionsStr)
     /\ ShowResultOK(Cur)
     /\ ShowResult(Cur) = Options[findOptionByText(defaultOptionStr) + 1]

\* C20 for MaxHeight >= 2: not the claim, which covers MaxHeight 1 too.
DefaultOptionPlacedFromTwo ==
  MaxHeight >= 2 => C20_DefaultOptionPlaced

\* The step the callback takes for the key code keys.CtrlC: the first case
\* of the switch that matches it.
OnInterruptKey ==
  \/ CaseOf("CtrlC") = "CtrlC" /\ OnCtrlC
  \/ CaseOf("CtrlC") = "KeyConfirm" /\ OnKeyConfirm
  \/ CaseOf("CtrlC") = "KeySelect" /\ OnKeySelect

\* How often the callback was invoked.
CallbackRuns == Cardinality({i \in 1..Len(log) : log[i] = "OnInterruptFunc"})

\* After a cancellation a registered callback has run once, last, after
\* cursor.Show and area.Stop; after a confirmation or an error it has not run.
CallbackOnCancelOnly ==
  /\ (pc = "Cancelled" /\ OnInterruptFunc)
       => /\ CallbackRuns = 1
          /\ log[Len(log)] = "OnInterruptFunc"
          /\ Follows("cursor.Show", "OnInterruptFunc")
          /\ Follows("area.Stop", "OnInterruptFunc")
  /\ pc \in {"Confirmed", "Failed"} => CallbackRuns = 0

\* C21: in Browsing the interrupt key always ends the loop in Cancelled,
\* whatever the query, the Filtered List and the key configuration; the
\* registered callback then runs exactly once, after sink and cursor were
\* restored, and never after a confirmation or an error.
C21_InterruptCancels ==
  /\ [][OnInterruptKey => pc' = "Cancelled"]_vars
  /\ []CallbackOnCancelOnly

\* C21 for the printers whose select and confirm keys are not keys.CtrlC:
\* not the claim, which covers every key configuration.
InterruptCancelsUnlessBound ==
  /\ [][(OnInterruptKey /\ CaseOf("CtrlC") = "CtrlC") => pc' = "Cancelled"]_vars
  /\ []CallbackOnCancelOnly

\* No index occurs twice in selected and each is an index of the Candidate
\* Store.
WellFormed(selected) ==
  /\ \A i, j \in 1..Len(selected) : i # j => selected[i] # selected[j]
  /\ \A i \in 1..Len(selected) :
       0 <= selected[i] /\ selected[i] < Len(optionsStr)

\* C22: multiselect: after any sequence of key events, with duplicate
\* display texts too, the Selection Set holds no index twice and only
\* indices in [0, len(Candidate Store)).
C22_SelectionSetWellFormed ==
  Multiselect => WellFormed(selectedOptions)

\* C22 for the printers WithOptions configured: not the claim, which covers
\* every printer.
SelectionSetWellFormedWithOptions ==
  (Multiselect /\ Len(optionsStr) = Len(Options)) => WellFormed(selectedOptions)

\* C23: multiselect: once Show runs with options, however they were given,
\* the Candidate Store holds the display text of every option in order, the
\* Filtered List at startup is not empty, and select-all yields only indices
\* the render can read in the Candidate Store.
C23_CandidateStoreMatchesOptions ==
  (Multiselect /\ Len(Options) > 0 /\ pc # "Ready")
  => /\ optionsStr = StringsOf(Options)
     /\ AtStartup => Len(fuzzySearchMatches) > 0
     /\ (pc = "Browsing" /\ EnableSelectAll)
          => /\ ~RightCase(Cur).panicked
             /\ WellFormed(RightCase(Cur).selectedOptions)

====
